---- MODULE Spec2Model ----
(***************************************************************************)
(* Model of the generic actor Actor[S] of tideland/go-actor                *)
(* (src/unnamed/part_009, lines 291-781): the owned state, the bounded     *)
(* request channel, the run loop with its deferred finalisation, the       *)
(* execution of one request with and without ActionTimeout, and the        *)
(* submitting goroutines (Do, DoAsync, DoAsyncAwait, Query, Stop).         *)
(*                                                                         *)
(* The owned state S is a counter.  Actions are "inc" (s.value++, returns  *)
(* nil), "fail" (returns an error, leaves the state alone) and "read"      *)
(* (the getter of Query).  s.value++ is a read followed by a write, so     *)
(* an action has a start step (the read) and an end step (the write).      *)
(*                                                                         *)
(* Errors are modelled by their code: "nil", "ErrShutdown", "ErrCanceled", *)
(* "ErrTimeout" for the ActorError values the package builds, "ActionErr"  *)
(* for the error an action returns, "FinalizerErr" for an error a          *)
(* finalizer makes up.                                                     *)
(***************************************************************************)
EXTENDS Naturals, Integers, Sequences, FiniteSets, TLC

\* ------------------------------------------------------------------ bounds
NumProcs == 2
MaxEvents == 3
MaxEventsTimeout == 2
MaxStops == 2
MaxAwaits == 2
QueueCap == 1
MaxArg == 1
MaxEventsRepeat == 3
MaxTicks == 1

\* NewConfig: the default queue capacity and the default shutdown timeout (seconds)
DefaultQueueCapacity == 256
DefaultShutdownTimeout == 5

Procs == 1..NumProcs
Kinds == {"do", "async", "await"}
Acts == {"inc", "fail", "read"}
Ctxs == {"root", "c1"}

\* a call: DoWithErrorContext, DoAsyncWithErrorContext or
\* DoAsyncAwaitWithErrorContext with an action and a context
Call(k, a, c) == [kind |-> k, act |-> a, ctx |-> c]

\* Query is Do with a getter (lines 677-683)
Query == Call("do", "read", "root")

\* The calls the submitters of one run draw from: one of these workloads.
Workloads ==
    { {Call("async", "inc", "root"), Query},
      {Call("do", "inc", "root"), Query},
      {Call("async", "fail", "root"), Call("do", "inc", "root")},
      {Call("do", "fail", "root"), Call("await", "fail", "root")},
      {Call("await", "inc", "root"), Call("async", "inc", "root")},
      {Call("do", "inc", "c1"), Call("async", "inc", "c1")},
      {Call("await", "inc", "c1"), Query} }

VARIABLES
    state,          \* Actor.state: the counter value
    requests,       \* Actor.requests: the buffered channel, a sequence of request ids
    ctxDone,        \* Actor.ctx is cancelled (by Stop or by the parent context)
    cancelled,      \* the caller-supplied contexts that are cancelled
    err,            \* Actor.err: "unset" (nil pointer) or the stored error
    status,         \* Actor.status
    doneCloses,     \* number of close(a.done) executed; Done is closed iff > 0
    cfgTimeout,     \* config.ActionTimeout() > 0
    finalizer,      \* what run found as config.Finalizer(): "unread" before it looks
    loopPc,         \* position of the run goroutine
    loopReq,        \* the request run() is executing, 0 if none
    finalErr,       \* the local finalErr of run()
    reqs,           \* every request created so far, by id
    pc,             \* position of each submitting goroutine
    cur,            \* the request a submitting goroutine is busy with
    menu,           \* the workload of this run
    finalizerCalls, \* number of invocations of the finalizer
    finalizerRet,   \* what the finalizer returned, "none" while it was not invoked
    stopCalls,      \* number of Stop() calls made
    rootCancelled,  \* the parent context given in the configuration was cancelled
    nAccepted,      \* number of requests the channel has accepted
    queueCapacity,  \* Config.queueCapacity
    actionTimeout,  \* Config.actionTimeout, in seconds
    shutdownTimeout,\* Config.shutdownTimeout, in seconds
    cfgErr,         \* Config.err: the settings whose setter recorded an error
    asked,          \* the setter calls made on the Config, as <<setting, value>>
    goErr,          \* what Go returned: "notcalled", "nil" or "ConfigError"
    recoverer,      \* options-based Actor.recoverer: "none" before the default is set
    doneMade,       \* Actor.done has been assigned its channel
    doneGot         \* what a caller's Done() returned: "notcalled", "nil" or "chan"

vars == <<state, requests, ctxDone, cancelled, err, status, doneCloses, cfgTimeout,
          finalizer, loopPc, loopReq, finalErr, reqs, pc, cur, menu, finalizerCalls,
          finalizerRet, stopCalls, rootCancelled, nAccepted, queueCapacity,
          actionTimeout, shutdownTimeout, cfgErr, asked, goErr, recoverer, doneMade,
          doneGot>>

\* ------------------------------------------------------------------ helpers

\* Actor.IsDone
IsDone == status

\* Actor.IsRunning
IsRunning == ~IsDone

\* Actor.Err
Err == IF err = "unset" THEN "nil" ELSE err

\* Done() is closed
DoneClosed == doneCloses > 0

\* mutant of QueueStatus: the request in execution is counted as queued
QueueStatusWithCurrent ==
    LET length == Len(requests) + (IF loopReq # 0 THEN 1 ELSE 0) IN
    [Length |-> length, Capacity |-> QueueCap, IsFull |-> length = QueueCap]

\* Actor.QueueStatus (lines 734-742)
QueueStatus ==
    LET length == Len(requests) IN
    [Length |-> length, Capacity |-> QueueCap, IsFull |-> length = QueueCap]

\* mutant of ReqCtxDone: only a context of the caller's own counts
ReqCtxDoneOwnOnly(r) == reqs[r].ctx # "root" /\ reqs[r].ctx \in cancelled

\* mutant of CtxIsDone: the tick submits under a.ctx, not under the derived context
CtxIsDoneParentOnly(c) ==
    CASE c = "root" -> ctxDone
      [] c = "rep" -> ctxDone
      [] OTHER -> c \in cancelled

\* the context c is done: "root" is a.ctx itself, "rep" the context Repeat
\* derives from a.ctx (line 759), any other one is the caller's own
CtxIsDone(c) ==
    CASE c = "root" -> ctxDone
      [] c = "rep" -> ctxDone \/ "rep" \in cancelled
      [] OTHER -> c \in cancelled

\* <-req.ctx.Done() is ready
ReqCtxDone(r) == CtxIsDone(reqs[r].ctx)

\* req.done != nil
HasChan(r) == reqs[r].kind \in {"do", "await"}

\* mutant of Effect: the action works on a copy of the state, its write is lost
EffectOnCopy(act, rd, st) == st

\* what the action does to the state, given the value it read
Effect(act, rd, st) == IF act = "inc" THEN rd + 1 ELSE st

\* what the action returns
Result(act) == IF act = "fail" THEN "ActionErr" ELSE "nil"

\* the finalizers a configuration may hold: none (nil), or a function that returns
\* its argument, another error, or nil
Finalizers == {"none", "identity", "replace", "suppress"}

\* the finalizer function applied to finalErr
FinalizerOut(f, e) ==
    CASE f = "identity" -> e
      [] f = "replace" -> "FinalizerErr"
      [] f = "suppress" -> "nil"

Ids == 1..Len(reqs)

\* the goroutine that RepeatWithContext starts (lines 761-778)
Rep == NumProcs + 1

\* The calls made on the actor and its contexts so far: submissions, Stop() calls
\* and cancellations.
Events ==
    Len(reqs) + stopCalls + Cardinality(cancelled) + (IF rootCancelled THEN 1 ELSE 0)

\* A run makes at most MaxEvents of them, MaxEventsTimeout with an ActionTimeout,
\* where every executed request brings a goroutine of its own, and
\* MaxEventsRepeat when a repeater is at work.
MayCall ==
    Events < (IF Rep \in DOMAIN pc THEN MaxEventsRepeat
              ELSE IF cfgTimeout THEN MaxEventsTimeout ELSE MaxEvents)

Running == {r \in Ids : reqs[r].phase = "running"}

NewRequest(p, c) ==
    [kind |-> c.kind, act |-> c.act, ctx |-> c.ctx, proc |-> p,
     phase |-> "new",        \* new, queued, spawned, running, finished, skipped
     rd |-> 0,               \* the value the action read
     actionErr |-> "nil",    \* the variable actionErr of executeRequest
     chan |-> <<>>,          \* req.done, a channel of capacity 1
     writes |-> 0,           \* number of sends on req.done
     execs |-> 0,            \* number of times the action was started
     obs |-> -1,             \* the value a getter captured
     res |-> "pending",      \* what the call returned to its caller
     queueErr |-> "nil",     \* queueErr of DoAsyncAwaitWithErrorContext
     awaitRes |-> "none",    \* result cached by the awaiter's sync.Once
     awaits |-> 0,           \* number of awaiter invocations
     awaitRets |-> <<>>,     \* what each awaiter invocation returned
     afterStop |-> stopCalls > 0,   \* Stop() had been called when the call began
     afterDone |-> DoneClosed,      \* Done was closed when the call began
     ctxWasDone |-> CtxIsDone(c.ctx),
                                    \* the call's context was done when it began
     timedOut |-> "no",             \* the action's phase when its timer fired
     accNo |-> 0,                   \* n when it was the n-th request accepted
     accRunning |-> FALSE,          \* accepted before any Stop() or cancellation
     afterRepStop |-> "rep" \in cancelled,
                                    \* Repeat's stop function had been called
     seen |-> nAccepted]            \* requests accepted before the call began

Init ==
    /\ state = 0
    /\ requests = <<>>
    /\ ctxDone = FALSE
    /\ cancelled = {}
    /\ err = "unset"
    /\ status = FALSE
    /\ doneCloses = 0
    /\ cfgTimeout \in BOOLEAN
    /\ finalizer = "unread"
    /\ loopPc = "select"
    /\ loopReq = 0
    /\ finalErr = "nil"
    /\ reqs = <<>>
    /\ pc = [p \in Procs |-> "idle"]
    /\ cur = [p \in Procs |-> 0]
    /\ menu \in Workloads
    /\ finalizerCalls = 0
    /\ finalizerRet = "none"
    /\ stopCalls = 0
    /\ rootCancelled = FALSE
    /\ nAccepted = 0
    /\ queueCapacity = QueueCap
    /\ actionTimeout = (IF cfgTimeout THEN 1 ELSE 0)
    /\ shutdownTimeout = DefaultShutdownTimeout
    /\ cfgErr = {}
    /\ asked = {}
    /\ goErr = "nil"
    /\ recoverer = "none"
    /\ doneMade = TRUE
    /\ doneGot = "notcalled"

\* ------------------------------------------------------------------ run loop

buildVars == <<queueCapacity, actionTimeout, shutdownTimeout, cfgErr, asked, goErr>>
optVars == <<recoverer, doneMade, doneGot>>
cfgVars == <<cfgTimeout, menu, buildVars, optVars>>
envVars == <<ctxDone, cancelled, stopCalls, rootCancelled>>
finVars == <<err, status, doneCloses, finalizer, finalizerCalls, finalizerRet>>
procVars == <<pc, cur>>

\* mutant of CanSendDone: req.done is unbuffered, a send needs a waiting receiver
CanSendDoneUnbuffered(r) ==
    \E p \in DOMAIN pc : pc[p] \in {"recv", "await"} /\ cur[p] = r

\* req.done <- e on the channel of capacity 1 (blocks while the buffer is full)
CanSendDone(r) == Len(reqs[r].chan) < 1

\* the request after executeRequest has sent e on req.done, if there is one
\* (lines 424-426 and 460-461)
Sent(q, e) ==
    IF q.kind \in {"do", "await"}
    THEN [q EXCEPT !.chan = Append(@, e), !.writes = @ + 1]
    ELSE q

\* mutant of ExecuteReturn: the action's error is returned to run for every request
ExecuteReturnAlways(r, e) == e

\* executeRequest, lines 459-466: what it returns to run when the action gave e
ExecuteReturn(r, e) == IF HasChan(r) THEN "nil" ELSE e

\* run, lines 402-407: go on with the loop, or leave it with the error
RunAfter(x) ==
    /\ loopReq' = 0
    /\ IF x # "nil"
       THEN /\ finalErr' = x
            /\ loopPc' = "finalize"
       ELSE /\ loopPc' = "select"
            /\ UNCHANGED finalErr

\* mutant of ExecuteCanceled: the skipped request is answered with nil
ExecuteCanceledAsNil(r) ==
    /\ HasChan(r) => CanSendDone(r)
    /\ reqs' = [reqs EXCEPT ![r] = Sent([reqs[r] EXCEPT !.phase = "skipped"], "nil")]
    /\ UNCHANGED <<loopPc, loopReq>>

\* mutant of ExecuteCanceled: skipping a cancelled request ends the run loop
ExecuteCanceledEndsLoop(r) ==
    /\ HasChan(r) => CanSendDone(r)
    /\ reqs' = [reqs EXCEPT ![r] = Sent([reqs[r] EXCEPT !.phase = "skipped"], "ErrCanceled")]
    /\ loopPc' = "finalize"
    /\ UNCHANGED loopReq

\* mutant of ExecuteCanceled: for a request without result channel the error is
\* returned to run, which leaves the loop
ExecuteCanceledStopsOnAsync(r) ==
    /\ HasChan(r) => CanSendDone(r)
    /\ reqs' = [reqs EXCEPT ![r] = Sent([reqs[r] EXCEPT !.phase = "skipped"], "ErrCanceled")]
    /\ loopPc' = (IF HasChan(r) THEN loopPc ELSE "finalize")
    /\ UNCHANGED loopReq

\* mutant of ExecuteCanceled: the context is looked at after the action has run
ExecuteCanceledAfterRun(r) ==
    /\ HasChan(r) => CanSendDone(r)
    /\ reqs' = [reqs EXCEPT ![r] = Sent([reqs[r] EXCEPT !.phase = "skipped",
                                                        !.execs = @ + 1], "ErrCanceled")]
    /\ UNCHANGED <<loopPc, loopReq>>

\* executeRequest, lines 417-429: the request's context is done, the action is skipped
ExecuteCanceled(r) ==
    /\ HasChan(r) => CanSendDone(r)
    /\ reqs' = [reqs EXCEPT ![r] = Sent([reqs[r] EXCEPT !.phase = "skipped"], "ErrCanceled")]
    /\ UNCHANGED <<loopPc, loopReq>>

\* executeRequest, lines 434-442: the action is handed to a goroutine of its own
ExecuteSpawn(r) ==
    /\ reqs' = [reqs EXCEPT ![r].phase = "spawned"]
    /\ loopPc' = "wait"
    /\ loopReq' = r

\* executeRequest, line 456: the action starts on the run goroutine (reads the state)
ExecuteDirect(r) ==
    /\ reqs' = [reqs EXCEPT ![r].phase = "running", ![r].rd = state, ![r].execs = @ + 1]
    /\ loopPc' = "exec"
    /\ loopReq' = r

\* run, case req := <-a.requests, up to the start of the action
LoopRecv ==
    /\ loopPc = "select"
    /\ requests # <<>>
    /\ requests' = Tail(requests)
    /\ LET r == Head(requests) IN
         IF ReqCtxDone(r) THEN ExecuteCanceled(r)
         ELSE IF cfgTimeout THEN ExecuteSpawn(r)
         ELSE ExecuteDirect(r)
    /\ UNCHANGED <<state, finalErr, nAccepted, cfgVars, envVars, finVars, procVars>>

\* the request once its action has returned: actionErr = req.action(&a.state)
Finished(q) ==
    [q EXCEPT !.phase = "finished",
              !.actionErr = Result(q.act),
              !.obs = IF q.act = "read" THEN q.rd ELSE @]

\* without ActionTimeout (lines 456-466): the action returns on the run goroutine,
\* its result is sent or returned
LoopExecEnd ==
    /\ loopPc = "exec"
    /\ LET r == loopReq
           e == Result(reqs[r].act) IN
         /\ HasChan(r) => CanSendDone(r)
         /\ state' = Effect(reqs[r].act, reqs[r].rd, state)
         /\ reqs' = [reqs EXCEPT ![r] = Sent(Finished(reqs[r]), e)]
         /\ RunAfter(ExecuteReturn(r, e))
    /\ UNCHANGED <<requests, nAccepted, cfgVars, envVars, finVars, procVars>>

\* the goroutine of lines 439-442 starts the action (reads the state)
ActionStart(r) ==
    /\ reqs[r].phase = "spawned"
    /\ reqs' = [reqs EXCEPT ![r].phase = "running", ![r].rd = state, ![r].execs = @ + 1]
    /\ UNCHANGED <<state, requests, loopPc, loopReq, finalErr, nAccepted, cfgVars,
                   envVars, finVars, procVars>>

\* the goroutine of lines 439-442 ends: the action's write to the state,
\* the write of actionErr, close(done)
ActionEnd(r) ==
    /\ cfgTimeout
    /\ reqs[r].phase = "running"
    /\ state' = Effect(reqs[r].act, reqs[r].rd, state)
    /\ reqs' = [reqs EXCEPT ![r] = Finished(reqs[r])]
    /\ UNCHANGED <<requests, loopPc, loopReq, finalErr, nAccepted, cfgVars, envVars,
                   finVars, procVars>>

\* executeRequest, lines 445-466, case <-done: the action has returned, its result
\* is sent or returned
LoopActionDone ==
    /\ loopPc = "wait"
    /\ reqs[loopReq].phase = "finished"
    /\ LET r == loopReq
           e == reqs[r].actionErr IN
         /\ HasChan(r) => CanSendDone(r)
         /\ reqs' = [reqs EXCEPT ![r] = Sent(reqs[r], e)]
         /\ RunAfter(ExecuteReturn(r, e))
    /\ UNCHANGED <<state, requests, nAccepted, cfgVars, envVars, finVars, procVars>>

\* executeRequest, lines 447-452, case <-ctx.Done() of the timeout context: the
\* timer may fire at any moment, whether or not the action has returned
LoopTimeout ==
    /\ loopPc = "wait"
    /\ reqs' = [reqs EXCEPT ![loopReq].actionErr = "ErrTimeout",
                            ![loopReq].timedOut = reqs[loopReq].phase]
    /\ loopPc' = "deliver"
    /\ UNCHANGED <<state, requests, loopReq, finalErr, nAccepted, cfgVars, envVars,
                   finVars, procVars>>

\* executeRequest, lines 459-466, after the timeout: actionErr, which the action's
\* goroutine may have written meanwhile, is sent or returned
LoopDeliver ==
    /\ loopPc = "deliver"
    /\ LET r == loopReq
           e == reqs[r].actionErr IN
         /\ HasChan(r) => CanSendDone(r)
         /\ reqs' = [reqs EXCEPT ![r] = Sent(reqs[r], e)]
         /\ RunAfter(ExecuteReturn(r, e))
    /\ UNCHANGED <<state, requests, nAccepted, cfgVars, envVars, finVars, procVars>>

\* mutant of LoopStop: the loop watches the parent context instead of a.ctx
LoopStopOnParentOnly ==
    /\ loopPc = "select"
    /\ rootCancelled
    /\ finalErr' = "ErrShutdown"
    /\ loopPc' = "finalize"
    /\ UNCHANGED <<state, requests, loopReq, reqs, nAccepted, cfgVars, envVars,
                   finVars, procVars>>

\* run, case <-a.ctx.Done() (lines 393-399)
LoopStop ==
    /\ loopPc = "select"
    /\ ctxDone
    /\ finalErr' = "ErrShutdown"
    /\ loopPc' = "finalize"
    /\ UNCHANGED <<state, requests, loopReq, reqs, nAccepted, cfgVars, envVars,
                   finVars, procVars>>

\* finalErr after the deferred function of lines 382-387 has consulted finalizer f
Finalized(f, e) ==
    IF f # "none" /\ FinalizerOut(f, e) # "nil" THEN FinalizerOut(f, e) ELSE e

\* mutant of LoopFinalize: the error is stored before the finalizer is consulted
LoopFinalizeStoreFirst(f) ==
    /\ loopPc = "finalize"
    /\ finalizer' = f
    /\ finalizerCalls' = IF f # "none" THEN finalizerCalls + 1 ELSE finalizerCalls
    /\ finalizerRet' = IF f # "none" THEN FinalizerOut(f, finalErr) ELSE "none"
    /\ finalErr' = Finalized(f, finalErr)
    /\ err' = finalErr
    /\ loopPc' = "status"
    /\ UNCHANGED <<state, requests, loopReq, reqs, status, doneCloses, nAccepted,
                   cfgVars, envVars, procVars>>

\* run, the deferred function of lines 382-389, with f the configured finalizer
LoopFinalize(f) ==
    /\ loopPc = "finalize"
    /\ finalizer' = f
    /\ finalizerCalls' = IF f # "none" THEN finalizerCalls + 1 ELSE finalizerCalls
    /\ finalizerRet' = IF f # "none" THEN FinalizerOut(f, finalErr) ELSE "none"
    /\ finalErr' = Finalized(f, finalErr)
    /\ err' = finalErr'
    /\ loopPc' = "status"
    /\ UNCHANGED <<state, requests, loopReq, reqs, status, doneCloses, nAccepted,
                   cfgVars, envVars, procVars>>

\* mutant of LoopStoreStatus: the status is never stored
LoopSkipStatus ==
    /\ loopPc = "status"
    /\ loopPc' = "close"
    /\ UNCHANGED <<state, requests, loopReq, finalErr, reqs, err, status, doneCloses,
                   finalizer, finalizerCalls, finalizerRet, nAccepted, cfgVars, envVars,
                   procVars>>

\* run, defer a.status.Store(true) (line 377)
LoopStoreStatus ==
    /\ loopPc = "status"
    /\ status' = TRUE
    /\ loopPc' = "close"
    /\ UNCHANGED <<state, requests, loopReq, finalErr, reqs, err, doneCloses,
                   finalizer, finalizerCalls, finalizerRet, nAccepted, cfgVars, envVars,
                   procVars>>

\* run, defer close(a.done) (line 376); the goroutine ends
LoopCloseDone ==
    /\ loopPc = "close"
    /\ doneCloses' = doneCloses + 1
    /\ loopPc' = "exited"
    /\ UNCHANGED <<state, requests, loopReq, finalErr, reqs, err, status, finalizer,
                   finalizerCalls, finalizerRet, nAccepted, cfgVars, envVars, procVars>>

\* ------------------------------------------------------------------ submitters

\* the request of a call that has ended with e before or at its select: Do and
\* DoAsync return e, DoAsyncAwait returns an awaiter that holds e as queueErr
Returned(q, e) ==
    IF q.kind = "await"
    THEN [q EXCEPT !.res = "awaiter", !.queueErr = e]
    ELSE [q EXCEPT !.res = e]

\* lines 491-504, 554-567, 616-633: the IsDone check and the new request
CallBegin(p, c) ==
    /\ pc[p] = "idle"
    /\ MayCall
    /\ IF IsDone
       THEN /\ reqs' = Append(reqs, Returned(NewRequest(p, c), "ErrShutdown"))
            /\ UNCHANGED procVars
       ELSE /\ reqs' = Append(reqs, NewRequest(p, c))
            /\ pc' = [pc EXCEPT ![p] = "send"]
            /\ cur' = [cur EXCEPT ![p] = Len(reqs) + 1]
    /\ UNCHANGED <<state, requests, loopPc, loopReq, finalErr, nAccepted, cfgVars,
                   envVars, finVars>>

\* the request once the channel has taken it
Accepted(q) ==
    [q EXCEPT !.phase = "queued", !.accNo = nAccepted + 1, !.accRunning = ~ctxDone]

\* select, case a.requests <- req (lines 507, 570, 636)
SendEnqueue(p) ==
    /\ pc[p] = "send"
    /\ Len(requests) < QueueCap
    /\ LET r == cur[p] IN
         /\ requests' = Append(requests, r)
         /\ nAccepted' = nAccepted + 1
         /\ IF reqs[r].kind = "do"
            THEN /\ pc' = [pc EXCEPT ![p] = "recv"]
                 /\ reqs' = [reqs EXCEPT ![r] = Accepted(reqs[r])]
                 /\ UNCHANGED cur
            ELSE /\ reqs' = [reqs EXCEPT ![r] = Returned(Accepted(reqs[r]), "nil")]
                 /\ pc' = [pc EXCEPT ![p] = "idle"]
                 /\ cur' = [cur EXCEPT ![p] = 0]
    /\ UNCHANGED <<state, loopPc, loopReq, finalErr, cfgVars, envVars, finVars>>

\* the submitter leaves the select with error e
SendFail(p, e) ==
    /\ reqs' = [reqs EXCEPT ![cur[p]] = Returned(reqs[cur[p]], e)]
    /\ pc' = [pc EXCEPT ![p] = "idle"]
    /\ cur' = [cur EXCEPT ![p] = 0]
    /\ UNCHANGED <<state, requests, loopPc, loopReq, finalErr, nAccepted, cfgVars,
                   envVars, finVars>>

\* select, case <-ctx.Done() (lines 509, 572, 638)
SendCanceled(p) ==
    /\ pc[p] = "send"
    /\ ReqCtxDone(cur[p])
    /\ SendFail(p, "ErrCanceled")

\* select, case <-a.ctx.Done() (lines 515, 578, 644)
SendShutdown(p) ==
    /\ pc[p] = "send"
    /\ ctxDone
    /\ SendFail(p, "ErrShutdown")

\* DoWithErrorContext, line 508: return <-req.done
RecvResult(p) ==
    /\ pc[p] = "recv"
    /\ reqs[cur[p]].chan # <<>>
    /\ reqs' = [reqs EXCEPT ![cur[p]].res = Head(reqs[cur[p]].chan),
                            ![cur[p]].chan = Tail(@)]
    /\ pc' = [pc EXCEPT ![p] = "idle"]
    /\ cur' = [cur EXCEPT ![p] = 0]
    /\ UNCHANGED <<state, requests, loopPc, loopReq, finalErr, nAccepted, cfgVars,
                   envVars, finVars>>

\* a goroutine invokes the awaiter of request r (line 657)
AwaitCall(p, r) ==
    /\ pc[p] = "idle"
    /\ reqs[r].kind = "await"
    /\ reqs[r].res = "awaiter"
    /\ reqs[r].awaits < MaxAwaits
    /\ reqs' = [reqs EXCEPT ![r].awaits = @ + 1]
    /\ pc' = [pc EXCEPT ![p] = "await"]
    /\ cur' = [cur EXCEPT ![p] = r]
    /\ UNCHANGED <<state, requests, loopPc, loopReq, finalErr, nAccepted, cfgVars,
                   envVars, finVars>>

\* mutant of AwaitReturn: the result of once.Do is not kept, later calls return nil
AwaitReturnUncached(p) ==
    /\ pc[p] = "await"
    /\ LET r == cur[p] IN
         \/ /\ reqs[r].awaitRes # "none"
            /\ reqs' = [reqs EXCEPT ![r].awaitRets = Append(@, "nil")]
         \/ /\ reqs[r].awaitRes = "none"
            /\ reqs[r].queueErr # "nil"
            /\ reqs' = [reqs EXCEPT ![r].awaitRes = reqs[r].queueErr,
                                    ![r].awaitRets = Append(@, reqs[r].queueErr)]
         \/ /\ reqs[r].awaitRes = "none"
            /\ reqs[r].queueErr = "nil"
            /\ reqs[r].chan # <<>>
            /\ reqs' = [reqs EXCEPT ![r].awaitRes = Head(reqs[r].chan),
                                    ![r].awaitRets = Append(@, Head(reqs[r].chan)),
                                    ![r].chan = Tail(@)]
    /\ pc' = [pc EXCEPT ![p] = "idle"]
    /\ cur' = [cur EXCEPT ![p] = 0]
    /\ UNCHANGED <<state, requests, loopPc, loopReq, finalErr, nAccepted, cfgVars,
                   envVars, finVars>>

\* the awaiter, lines 657-666: once.Do computes the result, later calls return it
AwaitReturn(p) ==
    /\ pc[p] = "await"
    /\ LET r == cur[p] IN
         \/ /\ reqs[r].awaitRes # "none"
            /\ reqs' = [reqs EXCEPT ![r].awaitRets = Append(@, reqs[r].awaitRes)]
         \/ /\ reqs[r].awaitRes = "none"
            /\ reqs[r].queueErr # "nil"
            /\ reqs' = [reqs EXCEPT ![r].awaitRes = reqs[r].queueErr,
                                    ![r].awaitRets = Append(@, reqs[r].queueErr)]
         \/ /\ reqs[r].awaitRes = "none"
            /\ reqs[r].queueErr = "nil"
            /\ reqs[r].chan # <<>>
            /\ reqs' = [reqs EXCEPT ![r].awaitRes = Head(reqs[r].chan),
                                    ![r].awaitRets = Append(@, Head(reqs[r].chan)),
                                    ![r].chan = Tail(@)]
    /\ pc' = [pc EXCEPT ![p] = "idle"]
    /\ cur' = [cur EXCEPT ![p] = 0]
    /\ UNCHANGED <<state, requests, loopPc, loopReq, finalErr, nAccepted, cfgVars,
                   envVars, finVars>>

\* mutant of Stop: Stop closes the done channel itself
StopAndClose ==
    /\ stopCalls < MaxStops
    /\ MayCall
    /\ stopCalls' = stopCalls + 1
    /\ ctxDone' = TRUE
    /\ doneCloses' = doneCloses + 1
    /\ UNCHANGED <<state, requests, loopPc, loopReq, finalErr, reqs, nAccepted,
                   cancelled, rootCancelled, cfgVars, err, status, finalizer,
                   finalizerCalls, finalizerRet, procVars>>

\* mutant of Stop: Stop records the shutdown as the terminal error itself
StopStoresErr ==
    /\ stopCalls < MaxStops
    /\ MayCall
    /\ stopCalls' = stopCalls + 1
    /\ ctxDone' = TRUE
    /\ err' = "ErrShutdown"
    /\ UNCHANGED <<state, requests, loopPc, loopReq, finalErr, reqs, nAccepted,
                   cancelled, rootCancelled, cfgVars, status, doneCloses, finalizer,
                   finalizerCalls, finalizerRet, procVars>>

\* Actor.Stop: a.cancel() (lines 706-708)
Stop ==
    /\ stopCalls < MaxStops
    /\ MayCall
    /\ stopCalls' = stopCalls + 1
    /\ ctxDone' = TRUE
    /\ UNCHANGED <<state, requests, loopPc, loopReq, finalErr, reqs, nAccepted,
                   cancelled, rootCancelled, cfgVars, finVars, procVars>>

\* the context given to NewConfig is cancelled; a.ctx is derived from it (line 358)
RootCancel ==
    /\ ~rootCancelled
    /\ MayCall
    /\ rootCancelled' = TRUE
    /\ ctxDone' = TRUE
    /\ UNCHANGED <<state, requests, loopPc, loopReq, finalErr, reqs, nAccepted,
                   cancelled, stopCalls, cfgVars, finVars, procVars>>

\* a context a caller passes to a ...Context method is cancelled
CtxCancel(c) ==
    /\ c # "root"
    /\ c \notin cancelled
    /\ MayCall
    /\ \E m \in menu : m.ctx = c
    /\ cancelled' = cancelled \cup {c}
    /\ UNCHANGED <<state, requests, loopPc, loopReq, finalErr, reqs, nAccepted,
                   ctxDone, stopCalls, rootCancelled, cfgVars, finVars, procVars>>

Next ==
    \/ LoopRecv
    \/ LoopExecEnd
    \/ \E r \in Ids : ActionStart(r)
    \/ \E r \in Ids : ActionEnd(r)
    \/ LoopActionDone
    \/ LoopTimeout
    \/ LoopDeliver
    \/ LoopStop
    \/ \E f \in Finalizers : LoopFinalize(f)
    \/ LoopStoreStatus
    \/ LoopCloseDone
    \/ \E p \in Procs, c \in menu : CallBegin(p, c)
    \/ \E p \in Procs : SendEnqueue(p)
    \/ \E p \in Procs : SendCanceled(p)
    \/ \E p \in Procs : SendShutdown(p)
    \/ \E p \in Procs : RecvResult(p)
    \/ \E p \in Procs, r \in Ids : AwaitCall(p, r)
    \/ \E p \in Procs : AwaitReturn(p)
    \/ Stop
    \/ RootCancel
    \/ \E c \in Ctxs : CtxCancel(c)

Spec == Init /\ [][Next]_vars

\* the workloads of the runs whose progress is examined: asynchronous increments
\* with a Query, and an awaited increment under a context of its own with a Query
LiveWorkloads ==
    { {Call("async", "inc", "root"), Query},
      {Call("await", "inc", "c1"), Query} }

InitLive == Init /\ menu \in LiveWorkloads

\* a step of the run goroutine
LoopStep ==
    \/ LoopRecv
    \/ LoopExecEnd
    \/ LoopActionDone
    \/ LoopTimeout
    \/ LoopDeliver
    \/ LoopStop
    \/ \E f \in Finalizers : LoopFinalize(f)
    \/ LoopStoreStatus
    \/ LoopCloseDone

\* a step of a goroutine that executes an action under ActionTimeout
ActionStep == \E r \in Ids : ActionStart(r) \/ ActionEnd(r)

\* The Go scheduler lets every runnable goroutine run, actions return and timers
\* fire; a select of which a case stays or keeps becoming ready takes that case
\* at some point, Go choosing among the ready cases at random.  The submitting
\* goroutines are under no obligation to go on.
SpecLive ==
    /\ InitLive
    /\ [][Next]_vars
    /\ WF_vars(LoopStep)
    /\ WF_vars(ActionStep)
    /\ SF_vars(LoopStop)

\* ------------------------------------------------------------------ configuration

\* The values a setter is called with: a negative one, zero, and positive ones.
Args == -1..MaxArg

\* everything of the Actor but the position of its run goroutine and the timeout
\* it took from the Config
actorVars == <<state, requests, ctxDone, cancelled, err, status, doneCloses, finalizer,
               loopReq, finalErr, reqs, pc, cur, menu, finalizerCalls, finalizerRet,
               stopCalls, rootCancelled, nAccepted, recoverer, doneGot>>

\* NewConfig(ctx): the defaults and no error; no Actor exists, no goroutine runs.
InitCfg ==
    /\ state = 0
    /\ requests = <<>>
    /\ ctxDone = FALSE
    /\ cancelled = {}
    /\ err = "unset"
    /\ status = FALSE
    /\ doneCloses = 0
    /\ cfgTimeout = FALSE
    /\ finalizer = "unread"
    /\ loopPc = "notstarted"
    /\ loopReq = 0
    /\ finalErr = "nil"
    /\ reqs = <<>>
    /\ pc = [p \in Procs |-> "idle"]
    /\ cur = [p \in Procs |-> 0]
    /\ menu = {}
    /\ finalizerCalls = 0
    /\ finalizerRet = "none"
    /\ stopCalls = 0
    /\ rootCancelled = FALSE
    /\ nAccepted = 0
    /\ queueCapacity = DefaultQueueCapacity
    /\ actionTimeout = 0
    /\ shutdownTimeout = DefaultShutdownTimeout
    /\ cfgErr = {}
    /\ asked = {}
    /\ goErr = "notcalled"
    /\ recoverer = "none"
    /\ doneMade = FALSE
    /\ doneGot = "notcalled"

\* Config.wrapError: the error is joined to the ones recorded so far and stays.
wrapError(setting) == cfgErr' = cfgErr \cup {setting}

\* Config.SetContext: a nil context is recorded as an error.
SetContext(isNil) ==
    /\ goErr = "notcalled"
    /\ asked' = asked \cup {<<"context", IF isNil THEN 0 ELSE 1>>}
    /\ IF isNil THEN wrapError("context") ELSE UNCHANGED cfgErr
    /\ UNCHANGED <<queueCapacity, actionTimeout, shutdownTimeout, goErr, loopPc,
                   cfgTimeout, doneMade, actorVars>>

\* Config.SetQueueCapacity: a positive capacity is stored, any other is recorded
\* as an error and the capacity is left as it was.
SetQueueCapacity(capacity) ==
    /\ goErr = "notcalled"
    /\ asked' = asked \cup {<<"queueCapacity", capacity>>}
    /\ IF capacity <= 0
       THEN wrapError("queueCapacity") /\ UNCHANGED queueCapacity
       ELSE queueCapacity' = capacity /\ UNCHANGED cfgErr
    /\ UNCHANGED <<actionTimeout, shutdownTimeout, goErr, loopPc, cfgTimeout, doneMade, actorVars>>

\* Config.SetActionTimeout: zero (no timeout) and positive values are stored, a
\* negative one is recorded as an error.
SetActionTimeout(timeout) ==
    /\ goErr = "notcalled"
    /\ asked' = asked \cup {<<"actionTimeout", timeout>>}
    /\ IF timeout < 0
       THEN wrapError("actionTimeout") /\ UNCHANGED actionTimeout
       ELSE actionTimeout' = timeout /\ UNCHANGED cfgErr
    /\ UNCHANGED <<queueCapacity, shutdownTimeout, goErr, loopPc, cfgTimeout, doneMade, actorVars>>

\* SetShutdownTimeout storing zero as SetActionTimeout does
SetShutdownTimeoutZeroOk(timeout) ==
    /\ goErr = "notcalled"
    /\ asked' = asked \cup {<<"shutdownTimeout", timeout>>}
    /\ IF timeout < 0
       THEN wrapError("shutdownTimeout") /\ UNCHANGED shutdownTimeout
       ELSE shutdownTimeout' = timeout /\ UNCHANGED cfgErr
    /\ UNCHANGED <<queueCapacity, actionTimeout, goErr, loopPc, cfgTimeout, doneMade, actorVars>>

\* Config.SetShutdownTimeout: only a positive value is stored; zero and negative
\* ones are recorded as an error.
SetShutdownTimeout(timeout) ==
    /\ goErr = "notcalled"
    /\ asked' = asked \cup {<<"shutdownTimeout", timeout>>}
    /\ IF timeout <= 0
       THEN wrapError("shutdownTimeout") /\ UNCHANGED shutdownTimeout
       ELSE shutdownTimeout' = timeout /\ UNCHANGED cfgErr
    /\ UNCHANGED <<queueCapacity, actionTimeout, goErr, loopPc, cfgTimeout, doneMade, actorVars>>

\* Config.Validate: the accumulated error, nil when no setter recorded one.
Validate == IF cfgErr = {} THEN "nil" ELSE "ConfigError"

\* Go: with a Config that does not validate it returns the error and nothing is
\* started; otherwise the Actor is built from the Config's values and its run
\* goroutine starts.
Go ==
    /\ goErr = "notcalled"
    /\ goErr' = Validate
    /\ IF Validate # "nil"
       THEN UNCHANGED <<loopPc, cfgTimeout, doneMade>>
       ELSE /\ loopPc' = "select"
            /\ cfgTimeout' = (actionTimeout > 0)
            /\ doneMade' = TRUE
    /\ UNCHANGED <<queueCapacity, actionTimeout, shutdownTimeout, cfgErr, asked, actorVars>>

\* The Config is built and handed to Go; the context given to NewConfig may be
\* cancelled at any time, and the run goroutine of an Actor that Go started
\* then stops, runs the finalizer and closes Done.
NextCfg ==
    \/ \E isNil \in BOOLEAN : SetContext(isNil)
    \/ \E capacity \in Args : SetQueueCapacity(capacity)
    \/ \E timeout \in Args : SetActionTimeout(timeout)
    \/ \E timeout \in Args : SetShutdownTimeout(timeout)
    \/ Go
    \/ RootCancel
    \/ LoopStop
    \/ \E f \in Finalizers : LoopFinalize(f)
    \/ LoopStoreStatus
    \/ LoopCloseDone

SpecCfg == InitCfg /\ [][NextCfg]_vars

\* ------------------------------------------------------------------ options-based Actor

\* The Actor of actor.go is started with options and takes actions without a
\* state argument.  Its fields ctx, requests, err and done are held in ctxDone,
\* requests, err and doneCloses, its backend goroutine's position in loopPc; the
\* actions of the test suite work on a counter, held in state.

\* the recoverer after Go: the default one, or one given with WithRecoverer that
\* returns nil or an error
Recoverers == {"default", "continue", "fail"}

\* what the recoverer returns for a panic
RecovererOut(rc) ==
    CASE rc = "default" -> "PanicErr"
      [] rc = "continue" -> "nil"
      [] rc = "fail" -> "RecovererErr"

\* the finalizer after Go: the default one, which returns its argument, or one
\* given with WithFinalizer
OptFinalizers == {"identity", "replace", "suppress"}

\* The calls the submitters of one run draw from: DoSync, DoAsync and
\* DoSyncWithContext with an action that increments the counter, or that
\* increments it and panics.
OptWorkloads ==
    { {Call("sync", "panic", "background"), Call("sync", "inc", "background")},
      {Call("async", "panic", "background"), Call("sync", "inc", "background")},
      {Call("async", "inc", "background"), Call("sync", "panic", "background")},
      {Call("sync", "inc", "c1"), Call("async", "panic", "background")} }

\* Actor.IsDone: the select on act.done; a nil channel is never ready
OptIsDone == doneMade /\ doneCloses > 0

\* <-req.ctx.Done() is ready; context.Background() is never done
OptReqCtxDone(r) == reqs[r].ctx # "background" /\ reqs[r].ctx \in cancelled

\* newRequest
OptRequest(p, c) ==
    [kind |-> c.kind, act |-> c.act, ctx |-> c.ctx, proc |-> p,
     phase |-> "new",        \* new, queued, running, done, panicked, skipped
     rd |-> 0,               \* the counter value the action read
     err |-> "nil",          \* req.err
     doneClosed |-> FALSE,   \* req.done is closed
     execs |-> 0,            \* number of times the action was started
     res |-> "pending",      \* what the call returned to its caller
     errWas |-> Err,         \* Err() when the call began
     afterPanic |-> \E q \in Ids : reqs[q].phase = "panicked"]
                             \* an action had panicked when the call began

\* the variables the options-based Actor never changes after Go
optFixed == <<status, cfgTimeout, finalErr, menu, nAccepted, buildVars, recoverer,
              rootCancelled, doneGot>>

\* Go with its options has returned: the backend goroutine has closed started
\* and is about to assign act.done.
InitOpt ==
    /\ state = 0
    /\ requests = <<>>
    /\ ctxDone = FALSE
    /\ cancelled = {}
    /\ err = "unset"
    /\ status = FALSE
    /\ doneCloses = 0
    /\ cfgTimeout = FALSE
    /\ finalizer = "unread"
    /\ loopPc = "make"
    /\ loopReq = 0
    /\ finalErr = "nil"
    /\ reqs = <<>>
    /\ pc = [p \in Procs |-> "idle"]
    /\ cur = [p \in Procs |-> 0]
    /\ menu \in OptWorkloads
    /\ finalizerCalls = 0
    /\ finalizerRet = "none"
    /\ stopCalls = 0
    /\ rootCancelled = FALSE
    /\ nAccepted = 0
    /\ queueCapacity = QueueCap
    /\ actionTimeout = 0
    /\ shutdownTimeout = 0
    /\ cfgErr = {}
    /\ asked = {}
    /\ goErr = "nil"
    /\ recoverer \in Recoverers
    /\ doneMade = FALSE
    /\ doneGot = "notcalled"

\* backend: act.done = make(chan struct{})
OptBackendMake ==
    /\ loopPc = "make"
    /\ doneMade' = TRUE
    /\ loopPc' = "check"
    /\ UNCHANGED <<optFixed, state, requests, ctxDone, cancelled, err, doneCloses,
                   finalizer, loopReq, reqs, pc, cur, finalizerCalls, finalizerRet,
                   stopCalls>>

\* backend: for !act.IsDone() { act.work() }; leaving the loop, backend returns
\* into the deferred finalize
OptBackendCheck ==
    /\ loopPc = "check"
    /\ loopPc' = (IF OptIsDone THEN "finalize" ELSE "select")
    /\ UNCHANGED <<optFixed, state, requests, ctxDone, cancelled, err, doneCloses,
                   finalizer, loopReq, reqs, pc, cur, finalizerCalls, finalizerRet,
                   stopCalls, doneMade>>

\* work: case <-act.ctx.Done(): close(act.done); return
OptWorkStop ==
    /\ loopPc = "select"
    /\ ctxDone
    /\ doneCloses' = doneCloses + 1
    /\ loopPc' = "check"
    /\ UNCHANGED <<optFixed, state, requests, ctxDone, cancelled, err, finalizer,
                   loopReq, reqs, pc, cur, finalizerCalls, finalizerRet, stopCalls,
                   doneMade>>

\* work: case req := <-act.requests: req.execute().  execute closes req.done at
\* once, with the context's error in req.err, when the request's context is
\* done; otherwise it calls the action.
OptWorkRecv ==
    /\ loopPc = "select"
    /\ requests # <<>>
    /\ LET r == Head(requests) IN
        /\ requests' = Tail(requests)
        /\ IF OptReqCtxDone(r)
           THEN /\ reqs' = [reqs EXCEPT ![r].phase = "skipped", ![r].err = "CtxErr",
                                        ![r].doneClosed = TRUE]
                /\ UNCHANGED <<loopPc, loopReq>>
           ELSE /\ reqs' = [reqs EXCEPT ![r].phase = "running", ![r].rd = state,
                                        ![r].execs = @ + 1]
                /\ loopPc' = "exec"
                /\ loopReq' = r
    /\ UNCHANGED <<optFixed, state, ctxDone, cancelled, err, doneCloses, finalizer,
                   pc, cur, finalizerCalls, finalizerRet, stopCalls, doneMade>>

\* mutant of OptExecuteEnd: req.done is closed after the action, not deferred, so
\* a panic leaves it open
OptExecuteEndNoDefer ==
    /\ loopPc = "exec"
    /\ LET r == loopReq IN
        /\ state' = reqs[r].rd + 1
        /\ reqs' = [reqs EXCEPT ![r].doneClosed = (reqs[r].act # "panic"),
                                ![r].phase = IF reqs[r].act = "panic" THEN "panicked"
                                                                     ELSE "done"]
        /\ loopPc' = (IF reqs[r].act = "panic" THEN "recover" ELSE "select")
    /\ loopReq' = 0
    /\ UNCHANGED <<optFixed, requests, ctxDone, cancelled, err, doneCloses, finalizer,
                   pc, cur, finalizerCalls, finalizerRet, stopCalls, doneMade>>

\* execute: the action has incremented the counter and returns or panics; the
\* deferred close(req.done) runs in both cases.  A panic leaves work through its
\* deferred function.
OptExecuteEnd ==
    /\ loopPc = "exec"
    /\ LET r == loopReq IN
        /\ state' = reqs[r].rd + 1
        /\ reqs' = [reqs EXCEPT ![r].doneClosed = TRUE,
                                ![r].phase = IF reqs[r].act = "panic" THEN "panicked"
                                                                     ELSE "done"]
        /\ loopPc' = (IF reqs[r].act = "panic" THEN "recover" ELSE "select")
    /\ loopReq' = 0
    /\ UNCHANGED <<optFixed, requests, ctxDone, cancelled, err, doneCloses, finalizer,
                   pc, cur, finalizerCalls, finalizerRet, stopCalls, doneMade>>

\* mutant of OptRecover: act.done is closed whatever the recoverer returns
OptRecoverAlwaysCloses ==
    /\ loopPc = "recover"
    /\ loopPc' = "close"
    /\ err' = (IF RecovererOut(recoverer) = "nil" THEN err ELSE RecovererOut(recoverer))
    /\ UNCHANGED <<optFixed, state, requests, ctxDone, cancelled, doneCloses,
                   finalizer, loopReq, reqs, pc, cur, finalizerCalls, finalizerRet,
                   stopCalls, doneMade>>

\* mutant of OptRecover: the recoverer's error is dropped and work returns
OptRecoverDropsError ==
    /\ loopPc = "recover"
    /\ loopPc' = "check"
    /\ UNCHANGED <<optFixed, state, requests, ctxDone, cancelled, err, doneCloses,
                   finalizer, loopReq, reqs, pc, cur, finalizerCalls, finalizerRet,
                   stopCalls, doneMade>>

\* work, deferred: err := act.recoverer(reason); a nil error lets work return,
\* another one is stored in act.err
OptRecover ==
    /\ loopPc = "recover"
    /\ IF RecovererOut(recoverer) = "nil"
       THEN loopPc' = "check" /\ UNCHANGED err
       ELSE loopPc' = "close" /\ err' = RecovererOut(recoverer)
    /\ UNCHANGED <<optFixed, state, requests, ctxDone, cancelled, doneCloses,
                   finalizer, loopReq, reqs, pc, cur, finalizerCalls, finalizerRet,
                   stopCalls, doneMade>>

\* work, deferred: close(act.done) after the error was stored
OptRecoverClose ==
    /\ loopPc = "close"
    /\ doneCloses' = doneCloses + 1
    /\ loopPc' = "check"
    /\ UNCHANGED <<optFixed, state, requests, ctxDone, cancelled, err, finalizer,
                   loopReq, reqs, pc, cur, finalizerCalls, finalizerRet, stopCalls,
                   doneMade>>

\* finalize: the finalizer gets the stored error or nil; what it returns is
\* stored unless it is nil
OptFinalize(f) ==
    /\ loopPc = "finalize"
    /\ finalizer' = f
    /\ finalizerCalls' = finalizerCalls + 1
    /\ LET ferr == FinalizerOut(f, Err) IN
        /\ finalizerRet' = ferr
        /\ err' = (IF ferr # "nil" THEN ferr ELSE err)
    /\ loopPc' = "exited"
    /\ UNCHANGED <<optFixed, state, requests, ctxDone, cancelled, doneCloses, loopReq,
                   reqs, pc, cur, stopCalls, doneMade>>

\* DoSync, DoAsync, DoSyncWithContext: newRequest, and send's first check: a
\* stored error is returned
OptSendBegin(p, c) ==
    /\ pc[p] = "idle"
    /\ MayCall
    /\ LET r == Len(reqs) + 1 IN
        IF err # "unset"
        THEN /\ reqs' = Append(reqs, [OptRequest(p, c) EXCEPT !.res = err])
             /\ UNCHANGED <<pc, cur>>
        ELSE /\ reqs' = Append(reqs, OptRequest(p, c))
             /\ pc' = [pc EXCEPT ![p] = "checked"]
             /\ cur' = [cur EXCEPT ![p] = r]
    /\ UNCHANGED <<optFixed, state, requests, ctxDone, cancelled, err, doneCloses,
                   finalizer, loopPc, loopReq, finalizerCalls, finalizerRet, stopCalls,
                   doneMade>>

\* send's second check: if act.IsDone() { return "actor is done" }
OptSendCheckDone(p) ==
    /\ pc[p] = "checked"
    /\ IF OptIsDone
       THEN /\ reqs' = [reqs EXCEPT ![cur[p]].res = "ErrDone"]
            /\ pc' = [pc EXCEPT ![p] = "idle"]
            /\ cur' = [cur EXCEPT ![p] = 0]
       ELSE /\ pc' = [pc EXCEPT ![p] = "send"]
            /\ UNCHANGED <<reqs, cur>>
    /\ UNCHANGED <<optFixed, state, requests, ctxDone, cancelled, err, doneCloses,
                   finalizer, loopPc, loopReq, finalizerCalls, finalizerRet, stopCalls,
                   doneMade>>

\* send: case act.requests <- req; DoAsync returns nil, DoSync goes on to wait
OptSendEnqueue(p) ==
    /\ pc[p] = "send"
    /\ Len(requests) < queueCapacity
    /\ LET r == cur[p] IN
        /\ requests' = Append(requests, r)
        /\ IF reqs[r].kind = "async"
           THEN /\ reqs' = [reqs EXCEPT ![r].phase = "queued", ![r].res = "nil"]
                /\ pc' = [pc EXCEPT ![p] = "idle"]
                /\ cur' = [cur EXCEPT ![p] = 0]
           ELSE /\ reqs' = [reqs EXCEPT ![r].phase = "queued"]
                /\ pc' = [pc EXCEPT ![p] = "wait"]
                /\ UNCHANGED cur
    /\ UNCHANGED <<optFixed, state, ctxDone, cancelled, err, doneCloses, finalizer,
                   loopPc, loopReq, finalizerCalls, finalizerRet, stopCalls, doneMade>>

\* the call returns res to its caller
OptReturn(p, res) ==
    /\ reqs' = [reqs EXCEPT ![cur[p]].res = res]
    /\ pc' = [pc EXCEPT ![p] = "idle"]
    /\ cur' = [cur EXCEPT ![p] = 0]
    /\ UNCHANGED <<optFixed, state, requests, ctxDone, cancelled, err, doneCloses,
                   finalizer, loopPc, loopReq, finalizerCalls, finalizerRet, stopCalls,
                   doneMade>>

\* send: case <-req.ctx.Done()
OptSendCanceled(p) ==
    /\ pc[p] = "send"
    /\ OptReqCtxDone(cur[p])
    /\ OptReturn(p, "ErrCtxSending")

\* send: case <-act.ctx.Done()
OptSendShutdown(p) ==
    /\ pc[p] = "send"
    /\ ctxDone
    /\ OptReturn(p, "ErrActorSending")

\* wait: case <-req.done; return req.err
OptWaitDone(p) ==
    /\ pc[p] = "wait"
    /\ reqs[cur[p]].doneClosed
    /\ OptReturn(p, reqs[cur[p]].err)

\* wait: case <-req.ctx.Done()
OptWaitCanceled(p) ==
    /\ pc[p] = "wait"
    /\ OptReqCtxDone(cur[p])
    /\ OptReturn(p, "ErrCtxWaiting")

\* wait: case <-act.ctx.Done()
OptWaitShutdown(p) ==
    /\ pc[p] = "wait"
    /\ ctxDone
    /\ OptReturn(p, "ErrActorWaiting")

\* Actor.Stop: if act.IsDone() { return }; act.cancel()
OptStop ==
    /\ stopCalls < MaxStops
    /\ MayCall
    /\ stopCalls' = stopCalls + 1
    /\ ctxDone' = (ctxDone \/ ~OptIsDone)
    /\ UNCHANGED <<optFixed, state, requests, cancelled, err, doneCloses, finalizer,
                   loopPc, loopReq, reqs, pc, cur, finalizerCalls, finalizerRet,
                   doneMade>>

\* Actor.Done: return act.done, read without synchronisation with the backend's
\* assignment: the caller gets nil before it and the channel after it
OptDone ==
    /\ doneGot = "notcalled"
    /\ doneGot' = (IF doneMade THEN "chan" ELSE "nil")
    /\ UNCHANGED <<status, cfgTimeout, finalErr, menu, nAccepted, buildVars, recoverer,
                   rootCancelled, state, requests, ctxDone, cancelled, err, doneCloses,
                   finalizer, loopPc, loopReq, reqs, pc, cur, finalizerCalls,
                   finalizerRet, stopCalls, doneMade>>

NextOpt ==
    \/ OptBackendMake
    \/ OptBackendCheck
    \/ OptWorkStop
    \/ OptWorkRecv
    \/ OptExecuteEnd
    \/ OptRecover
    \/ OptRecoverClose
    \/ \E f \in OptFinalizers : OptFinalize(f)
    \/ \E p \in Procs, c \in menu : OptSendBegin(p, c)
    \/ \E p \in Procs : OptSendCheckDone(p)
    \/ \E p \in Procs : OptSendEnqueue(p)
    \/ \E p \in Procs : OptSendCanceled(p)
    \/ \E p \in Procs : OptSendShutdown(p)
    \/ \E p \in Procs : OptWaitDone(p)
    \/ \E p \in Procs : OptWaitCanceled(p)
    \/ \E p \in Procs : OptWaitShutdown(p)
    \/ OptStop
    \/ OptDone
    \/ CtxCancel("c1")

SpecOpt == InitOpt /\ [][NextOpt]_vars

\* ------------------------------------------------------------------ Repeat

\* The request of one tick (line 771): a DoAsync of the repeated action, an
\* increment of the owned state, under the context Repeat derived from a.ctx.
RepeatCall == Call("async", "inc", "rep")

\* What the other goroutines do while the repeater runs: they read the state
\* with Query, or they submit an async action that returns an error.
RepWorkloads == { {Query}, {Call("async", "fail", "root")} }

\* one goroutine submits them
RepProcs == {1}

\* Repeat has been called on a fresh actor: its goroutine waits in the select
\* of lines 765-777.
InitRep ==
    /\ state = 0
    /\ requests = <<>>
    /\ ctxDone = FALSE
    /\ cancelled = {}
    /\ err = "unset"
    /\ status = FALSE
    /\ doneCloses = 0
    /\ cfgTimeout \in BOOLEAN
    /\ finalizer = "unread"
    /\ loopPc = "select"
    /\ loopReq = 0
    /\ finalErr = "nil"
    /\ reqs = <<>>
    /\ pc = [p \in RepProcs \cup {Rep} |-> "idle"]
    /\ cur = [p \in RepProcs \cup {Rep} |-> 0]
    /\ menu \in RepWorkloads
    /\ finalizerCalls = 0
    /\ finalizerRet = "none"
    /\ stopCalls = 0
    /\ rootCancelled = FALSE
    /\ nAccepted = 0
    /\ queueCapacity = QueueCap
    /\ actionTimeout = (IF cfgTimeout THEN 1 ELSE 0)
    /\ shutdownTimeout = DefaultShutdownTimeout
    /\ cfgErr = {}
    /\ asked = {}
    /\ goErr = "nil"
    /\ recoverer = "none"
    /\ doneMade = TRUE
    /\ doneGot = "notcalled"

\* case <-ticker.C (lines 770-775): the repeater submits the action with
\* DoAsyncWithErrorContext and ignores what the call returns
RepeatTick ==
    /\ Cardinality({r \in Ids : reqs[r].proc = Rep}) < MaxTicks
    /\ CallBegin(Rep, RepeatCall)

\* case <-ctx.Done() and case <-a.ctx.Done() (lines 766-769): the repeater returns
RepeatEnd ==
    /\ pc[Rep] = "idle"
    /\ CtxIsDone("rep")
    /\ pc' = [pc EXCEPT ![Rep] = "ended"]
    /\ UNCHANGED <<state, requests, loopPc, loopReq, finalErr, reqs, nAccepted, cur,
                   cfgVars, envVars, finVars>>

\* the stop function Repeat returned (line 780), the cancel of the derived context
RepeatStop ==
    /\ "rep" \notin cancelled
    /\ MayCall
    /\ cancelled' = cancelled \cup {"rep"}
    /\ UNCHANGED <<state, requests, loopPc, loopReq, finalErr, reqs, nAccepted,
                   ctxDone, stopCalls, rootCancelled, cfgVars, finVars, procVars>>

NextRep ==
    \/ LoopRecv
    \/ LoopExecEnd
    \/ \E r \in Ids : ActionStart(r)
    \/ \E r \in Ids : ActionEnd(r)
    \/ LoopActionDone
    \/ LoopTimeout
    \/ LoopDeliver
    \/ LoopStop
    \/ \E f \in Finalizers : LoopFinalize(f)
    \/ LoopStoreStatus
    \/ LoopCloseDone
    \/ \E p \in RepProcs, c \in menu : CallBegin(p, c)
    \/ \E p \in RepProcs \cup {Rep} : SendEnqueue(p)
    \/ \E p \in RepProcs \cup {Rep} : SendCanceled(p)
    \/ \E p \in RepProcs \cup {Rep} : SendShutdown(p)
    \/ \E p \in RepProcs : RecvResult(p)
    \/ Stop
    \/ RootCancel
    \/ RepeatTick
    \/ RepeatEnd
    \/ RepeatStop

SpecRep == InitRep /\ [][NextRep]_vars

\* ------------------------------------------------------------------ claims

\* the request's call has returned to its caller (DoAsyncAwait: with the awaiter)
HasReturned(r) == reqs[r].res # "pending"

\* the run goroutine is in its loop, not in its deferred functions
LoopRunning == loopPc \in {"select", "exec", "wait", "deliver"}

C2_NoLostUpdates ==
    \A q \in Ids :
        ( /\ ~cfgTimeout
          /\ q = Len(reqs)
          /\ reqs[q].act = "read"
          /\ reqs[q].res = "nil"
          /\ reqs[q].seen = q - 1
          /\ \A r \in 1..(q - 1) :
                reqs[r].kind = "async" /\ reqs[r].act = "inc" /\ reqs[r].ctx = "root" )
        => reqs[q].obs = q - 1

\* C2's case: two DoAsync(increment) of different callers, then a Query returned nil
C2_Witness ==
    /\ ~cfgTimeout
    /\ Len(reqs) = 3
    /\ reqs[3].act = "read" /\ reqs[3].res = "nil" /\ reqs[3].seen = 2
    /\ reqs[1].kind = "async" /\ reqs[1].act = "inc"
    /\ reqs[2].kind = "async" /\ reqs[2].act = "inc"
    /\ reqs[1].proc # reqs[2].proc

\* C3: a Do (Query) that returned nil had its action executed exactly once and
\* completed; and after k sequential Do(increment) that all returned nil, a Query
\* of the same caller that returns nil has read k.
C3_DoNilExecutedOnce ==
    /\ \A r \in Ids :
          (reqs[r].kind = "do" /\ reqs[r].res = "nil")
          => (reqs[r].execs = 1 /\ reqs[r].phase = "finished")
    /\ \A q \in Ids :
          ( /\ q = Len(reqs)
            /\ reqs[q].act = "read"
            /\ reqs[q].res = "nil"
            /\ \A r \in 1..(q - 1) :
                  /\ reqs[r].kind = "do" /\ reqs[r].act = "inc"
                  /\ reqs[r].proc = reqs[q].proc /\ reqs[r].res = "nil" )
          => reqs[q].obs = q - 1

\* C3's case: two successful Do(increment) and a successful Query of one caller
C3_Witness ==
    /\ Len(reqs) = 3
    /\ \A r \in 1..2 : reqs[r].kind = "do" /\ reqs[r].act = "inc" /\ reqs[r].res = "nil"
    /\ reqs[3].act = "read" /\ reqs[3].res = "nil"
    /\ reqs[1].proc = reqs[3].proc /\ reqs[2].proc = reqs[3].proc

\* C4: a Do submitted after Stop() was called returns an error with code
\* ErrShutdown, and its action is never run.
C4_DoAfterStopIsShutdown ==
    \A r \in Ids :
        (reqs[r].kind = "do" /\ reqs[r].ctx = "root" /\ reqs[r].afterStop /\ HasReturned(r))
        => (reqs[r].res = "ErrShutdown" /\ reqs[r].execs = 0)

\* C5: every accepted request with a result channel gets its result written
\* exactly once: never twice, and, once the run goroutine has ended and no write can
\* follow, not zero times either.
C5_ResultWrittenExactlyOnce ==
    \A r \in Ids :
        (HasChan(r) /\ reqs[r].phase # "new")
        => /\ reqs[r].writes <= 1
           /\ loopPc = "exited" => reqs[r].writes = 1

\* C6: a call begun after Done was closed returns ErrShutdown at once (DoAsyncAwait:
\* an awaiter that returns ErrShutdown), its request is never queued, its action
\* never run.
C6_AfterDoneIsShutdown ==
    \A r \in Ids :
        reqs[r].afterDone
        => /\ HasReturned(r)
           /\ reqs[r].kind # "await" => reqs[r].res = "ErrShutdown"
           /\ reqs[r].kind = "await" => reqs[r].queueErr = "ErrShutdown"
           /\ \A i \in 1..Len(reqs[r].awaitRets) : reqs[r].awaitRets[i] = "ErrShutdown"
           /\ reqs[r].phase = "new"
           /\ reqs[r].execs = 0
           /\ \A i \in 1..Len(requests) : requests[i] # r
           /\ \A p \in Procs : (pc[p] = "await" /\ cur[p] = r) => ENABLED AwaitReturn(p)

\* C6's case: an awaiter obtained after Done was closed has been invoked and returned
C6_Witness ==
    \E r \in Ids :
        /\ reqs[r].afterDone
        /\ reqs[r].kind = "await"
        /\ reqs[r].awaitRets = <<"ErrShutdown">>

\* C7: when the action of a DoAsyncWithError has returned its error e and nobody
\* called Stop() or cancelled the root context, the engine that has stopped reports e
\* through Err(), with no finalizer or an identity finalizer.
C7_AsyncErrorIsTerminal ==
    \A r \in Ids :
        ( /\ reqs[r].kind = "async" /\ reqs[r].act = "fail"
          /\ reqs[r].phase = "finished"
          /\ ~ctxDone
          /\ loopPc = "exited"
          /\ finalizer \in {"none", "identity"} )
        => Err = "ActionErr"

\* C8 as stated: the error returned by the action of a blocking submission is what
\* its caller or awaiter gets.
C8_BlockingErrorHanded ==
    \A r \in Ids :
        (HasChan(r) /\ reqs[r].act = "fail" /\ reqs[r].phase = "finished")
        => /\ reqs[r].res \in {"pending", "awaiter", "ActionErr"}
           /\ \A i \in 1..Len(reqs[r].awaitRets) : reqs[r].awaitRets[i] = "ActionErr"

\* what the caller of a blocking submission can get once its action has returned
\* an error: that error, or ErrTimeout when an ActionTimeout is configured
BlockingOutcomes == {"ActionErr"} \cup (IF cfgTimeout THEN {"ErrTimeout"} ELSE {})

\* C8 amended: the error returned by the action of a blocking submission is what
\* its caller or awaiter gets, unless an ActionTimeout is configured and the caller
\* gets ErrTimeout instead; and no blocking submission stops the engine: as long as
\* the root context is not cancelled and no async action was executed, the run loop
\* goes on, IsRunning() is true and Err() is nil.
C8_BlockingErrorLocal ==
    /\ \A r \in Ids :
          (HasChan(r) /\ reqs[r].act = "fail" /\ reqs[r].phase = "finished")
          => /\ reqs[r].res \in {"pending", "awaiter"} \cup BlockingOutcomes
             /\ \A i \in 1..Len(reqs[r].awaitRets) : reqs[r].awaitRets[i] \in BlockingOutcomes
    /\ ( /\ ~ctxDone
         /\ \A r \in Ids : reqs[r].kind = "async" => reqs[r].phase \in {"new", "queued"} )
       => (LoopRunning /\ IsRunning /\ Err = "nil")

\* C8's case: a DoWithError and an awaiter both got their action's error and the
\* engine runs on
C8_Witness ==
    /\ \E r \in Ids : reqs[r].kind = "do" /\ reqs[r].res = "ActionErr"
    /\ \E r \in Ids : reqs[r].kind = "await" /\ reqs[r].awaitRets = <<"ActionErr">>
    /\ LoopRunning /\ IsRunning /\ Err = "nil"

\* C9: a submitter blocked at the full queue is released when the engine stops for
\* any reason: once the run goroutine has ended, a case of its select is ready.
C9_BlockedSubmitterReleased ==
    \A p \in Procs :
        (pc[p] = "send" /\ loopPc = "exited")
        => (Len(requests) < QueueCap \/ ReqCtxDone(cur[p]) \/ ctxDone)

\* C10: whatever the number of Stop() calls, root cancellations and failing async
\* actions, the finalizer is invoked at most once and Done is closed at most once,
\* and exactly once when the run goroutine has ended.
C10_FinalizedOnce ==
    /\ finalizerCalls <= 1
    /\ doneCloses <= 1
    /\ loopPc = "exited" => (doneCloses = 1 /\ (finalizer # "none" => finalizerCalls = 1))

\* C10's case: two Stop() calls and a cancellation of the root context, the engine
\* has terminated with a finalizer configured
C10_Witness ==
    /\ stopCalls = 2
    /\ rootCancelled
    /\ loopPc = "exited"
    /\ finalizer # "none"
    /\ finalizerCalls = 1
    /\ doneCloses = 1

\* C11: Done is closed only after the finalizer has returned and the terminal error
\* is stored: after every step, Done closed implies IsDone(), IsDone() implies that
\* the finalizer was consulted and that Err() holds the final error of run, and once
\* IsDone() is true Err() never changes.
C11_DoneAfterFinalizer ==
    [][ /\ DoneClosed' => IsDone'
        /\ IsDone' => /\ finalizer' # "unread"
                      /\ finalizer' # "none" => finalizerCalls' = 1
                      /\ err' # "unset"
                      /\ err' = finalErr'
        /\ IsDone => err' = err ]_vars

\* C11's case: Done is closed after a finalizer replaced the error
C11_Witness ==
    /\ DoneClosed
    /\ finalizer = "replace"
    /\ finalizerCalls = 1
    /\ Err = "FinalizerErr"

\* C12: once Done is closed no action is executing and the owned state is never
\* modified again, ActionTimeout > 0 included.
C12_QuiescedAfterDone ==
    [][ DoneClosed => (Running = {} /\ state' = state) ]_vars

\* C13: after termination Err() equals the value the configured finalizer returned,
\* whatever it returned, nil included.
C13_ErrIsFinalizerReturn ==
    (IsDone /\ finalizerCalls = 1) => Err = finalizerRet

\* C14: Err() is nil while the engine is running, and nil after it has stopped
\* cleanly: after Stop() or root-context cancellation, no action having failed or
\* timed out, with no finalizer or an identity finalizer.
C14_ErrNilUnlessFailed ==
    /\ LoopRunning => Err = "nil"
    /\ ( /\ loopPc = "exited"
         /\ ctxDone
         /\ finalizer \in {"none", "identity"}
         /\ \A r \in Ids : reqs[r].act # "fail" /\ reqs[r].timedOut = "no" )
       => Err = "nil"

\* C15: the terminal error is write-once: once Err() is not nil, no step changes it.
C15_ErrWriteOnce ==
    [][ err # "unset" => err' = err ]_vars

\* C15's case: Stop() was called, an async action failed and a finalizer replaced
\* the error; the engine has terminated with an error stored
C15_Witness ==
    /\ stopCalls > 0
    /\ \E r \in Ids : reqs[r].kind = "async" /\ reqs[r].actionErr = "ActionErr"
    /\ finalizer = "replace"
    /\ loopPc = "exited"
    /\ Err = "FinalizerErr"

\* C16: every invocation of an awaiter returns the same error, the action is
\* started at most once however often the awaiter is invoked, and an awaiter that
\* returns the action's own result had the action executed exactly once.
C16_AwaiterIdempotent ==
    \A r \in Ids :
        reqs[r].kind = "await"
        => /\ \A i, j \in 1..Len(reqs[r].awaitRets) :
                 reqs[r].awaitRets[i] = reqs[r].awaitRets[j]
           /\ reqs[r].execs <= 1
           /\ \A i \in 1..Len(reqs[r].awaitRets) :
                 (reqs[r].queueErr = "nil" /\ reqs[r].awaitRets[i] = Result(reqs[r].act))
                 => (reqs[r].execs = 1 /\ reqs[r].phase = "finished")

\* C16's case: the awaiter of a failing action was invoked twice and returned the
\* action's error both times
C16_Witness ==
    \E r \in Ids :
        /\ reqs[r].kind = "await"
        /\ reqs[r].awaitRets = <<"ActionErr", "ActionErr">>
        /\ reqs[r].execs = 1

\* C17: with ActionTimeout, a Do whose action was running when the timer fired
\* returns ErrTimeout, and the action is not aborted: when it has ended, its
\* increment is in the state (it being the only increment submitted).
C17_TimeoutReturnsErrTimeout ==
    \A r \in Ids :
        (reqs[r].kind = "do" /\ reqs[r].timedOut = "running")
        => /\ HasReturned(r) => reqs[r].res = "ErrTimeout"
           /\ ( /\ reqs[r].act = "inc"
                /\ reqs[r].phase = "finished"
                /\ \A q \in Ids \ {r} : reqs[q].act # "inc" )
              => state = 1

\* C18: timeouts and cancellations of requests never change the engine's running
\* status or its terminal error: as long as the actor's context is not cancelled
\* and no submitted action returns an error, the run loop goes on, IsRunning() is
\* true and Err() is nil, whether the requests came through Do or DoAsync.
C18_TimeoutKeepsEngineRunning ==
    (~ctxDone /\ \A r \in Ids : reqs[r].act # "fail")
    => (LoopRunning /\ IsRunning /\ Err = "nil")

\* C19: a request whose context is cancelled when the run loop dequeues it is
\* skipped, and that step leaves the loop running and the state, the status and the
\* terminal error alone; the action of a skipped request never runs, and its
\* blocking caller or awaiter gets ErrCanceled.
C19_CanceledBeforeDequeue ==
    [][ \A r \in Ids :
          /\ (reqs[r].phase = "queued" /\ reqs'[r].phase # "queued" /\ ReqCtxDone(r))
             => /\ reqs'[r].phase = "skipped"
                /\ loopPc' = "select"
                /\ UNCHANGED <<state, err, status, finalErr>>
          /\ reqs'[r].phase = "skipped"
             => /\ reqs'[r].execs = 0
                /\ reqs'[r].kind = "do" => reqs'[r].res \in {"pending", "ErrCanceled"}
                /\ \A i \in 1..Len(reqs'[r].awaitRets) :
                      reqs'[r].awaitRets[i] = "ErrCanceled" ]_vars

\* C19's case: a queued DoAsyncAwait whose own context was cancelled was skipped,
\* its awaiter returned ErrCanceled, the engine runs on
C19_Witness ==
    \E r \in Ids :
        /\ reqs[r].kind = "await"
        /\ reqs[r].ctx # "root"
        /\ reqs[r].phase = "skipped"
        /\ reqs[r].awaitRets = <<"ErrCanceled">>
        /\ LoopRunning /\ IsRunning /\ Err = "nil"

\* C20: a Do or DoAsync called on a running engine with a context of its own that
\* is already cancelled fails with ErrCanceled and its request is never queued.
C20_CancelledCtxNeverQueued ==
    \A r \in Ids :
        ( /\ reqs[r].kind \in {"do", "async"}
          /\ reqs[r].ctx # "root"
          /\ reqs[r].ctxWasDone
          /\ ~ctxDone
          /\ LoopRunning )
        => /\ reqs[r].phase = "new"
           /\ reqs[r].res \in {"pending", "ErrCanceled"}

\* the action of request r has been started
Started(r) == reqs[r].execs > 0

\* C21: the queue never holds more than its capacity; a submitter that finds it
\* full, with no context cancelled, has not returned and has no case of its select
\* ready; and when the action of a request has started, every request accepted
\* before it has finished or was skipped.
C21_BackPressure ==
    /\ Len(requests) <= QueueCap
    /\ \A p \in Procs :
          (pc[p] = "send" /\ Len(requests) = QueueCap /\ ~ctxDone /\ ~ReqCtxDone(cur[p]))
          => /\ reqs[cur[p]].res = "pending"
             /\ reqs[cur[p]].phase = "new"
             /\ ~ENABLED SendEnqueue(p)
             /\ ~ENABLED SendCanceled(p)
             /\ ~ENABLED SendShutdown(p)
    /\ \A r, q \in Ids :
          (Started(r) /\ reqs[q].accNo > 0 /\ reqs[q].accNo < reqs[r].accNo)
          => reqs[q].phase \in {"finished", "skipped"}

\* C22: actions start in the order in which their requests were accepted: a step
\* that starts an action finds every request accepted earlier started or skipped;
\* and of two requests of one caller the earlier call is accepted first.
C22_FifoStart ==
    [][ /\ \A r, q \in Ids :
              ( /\ ~Started(r)
                /\ reqs'[r].execs > 0
                /\ reqs[q].accNo > 0
                /\ reqs[q].accNo < reqs[r].accNo )
              => (Started(q) \/ reqs[q].phase = "skipped")
        /\ \A r, q \in Ids :
              ( /\ reqs[r].proc = reqs[q].proc
                /\ q < r
                /\ reqs[q].accNo > 0
                /\ reqs[r].accNo > 0 )
              => reqs[q].accNo < reqs[r].accNo ]_vars

\* C23: Stop() is graceful: when the engine has stopped because of Stop() (no
\* ActionTimeout, no failing action, root context not cancelled), every request
\* that was accepted before Stop() was called has had its action executed.
C23_StopProcessesQueued ==
    ( /\ loopPc = "exited"
      /\ stopCalls > 0
      /\ ~rootCancelled
      /\ ~cfgTimeout
      /\ \A r \in Ids : reqs[r].act # "fail" )
    => \A r \in Ids : reqs[r].accRunning => reqs[r].phase = "finished"

\* C26: an Update (a DoWithError whose action reads and writes the state) runs as
\* one uninterrupted slot: when its action ends, the state is still the one it read,
\* so no other action's effect came between its read and its write; an updater
\* that rejects the operation leaves the state unchanged; and the step leaves the
\* engine running with Err() nil.
C26_UpdateAtomic ==
    [][ \A r \in Ids :
          ( /\ reqs[r].kind = "do"
            /\ reqs[r].phase = "running"
            /\ reqs'[r].phase = "finished" )
          => /\ state = reqs[r].rd
             /\ reqs[r].act = "fail" => state' = state
             /\ UNCHANGED <<err, status, finalErr>> ]_vars

\* C28: QueueStatus reports a length between 0 and the capacity, the configured
\* capacity, and IsFull exactly when the two are equal; on an engine that has
\* accepted nothing the length is 0 and IsFull is false.
C28_QueueStatusConsistent ==
    /\ QueueStatus.Length \in 0..QueueStatus.Capacity
    /\ QueueStatus.Length = Len(requests)
    /\ QueueStatus.Capacity = QueueCap
    /\ QueueStatus.IsFull <=> (Len(requests) >= QueueCap)
    /\ nAccepted = 0 => (QueueStatus.Length = 0 /\ ~QueueStatus.IsFull)

\* C28's case: the queue is full while the loop executes another request
C28_Witness ==
    /\ QueueStatus.IsFull
    /\ QueueStatus.Length = QueueCap
    /\ loopReq # 0

\* C24: after Stop() or the cancellation of the root context the engine eventually
\* runs the finalizer and closes Done, whatever is queued and whoever submits.
C24_StopTerminates ==
    ctxDone ~> (DoneClosed /\ finalizer # "unread")

\* C24's case: Stop() was called, the engine has terminated with a finalizer while
\* an accepted request is left in the queue
C24_Witness ==
    /\ stopCalls > 0
    /\ DoneClosed
    /\ finalizerCalls = 1
    /\ requests # <<>>

\* C25: an accepted DoAsync action is eventually executed to its end, unless the
\* actor's or the request's context is cancelled or the engine has stopped; and
\* while it runs no other action is running.
C25_AcceptedAsyncRuns ==
    /\ \A r \in 1..MaxEvents :
          (r \in Ids /\ reqs[r].kind = "async" /\ reqs[r].phase = "queued")
          ~> ( /\ r \in Ids
               /\ \/ reqs[r].phase = "finished"
                  \/ ReqCtxDone(r)
                  \/ ctxDone
                  \/ ~LoopRunning )
    /\ [](\A r \in Ids :
            (reqs[r].kind = "async" /\ reqs[r].phase = "running") => Running = {r})


\* Go has been called on the Config, and it returned an error
GoCalled == goErr # "notcalled"
GoFailed == goErr = "ConfigError"

\* no dispatch loop: the run goroutine never started, no action ran, the
\* finalizer was not invoked, Done is open
NoLoop ==
    /\ loopPc = "notstarted"
    /\ finalizerCalls = 0
    /\ doneCloses = 0
    /\ \A r \in Ids : reqs[r].execs = 0

\* the settings the claim calls invalid: a queue capacity that is not positive,
\* a timeout that is negative
InvalidAsked ==
    \E a \in asked :
        \/ a[1] = "queueCapacity" /\ a[2] <= 0
        \/ a[1] \in {"actionTimeout", "shutdownTimeout"} /\ a[2] < 0

\* C27: Go returns a non-nil error and starts no dispatch loop exactly when the
\* configuration is invalid, which is when a queue capacity that is not positive
\* or a negative timeout was set; with a positive capacity and non-negative
\* action and shutdown timeouts Go succeeds and starts the loop.
C27_GoRejectsInvalid ==
    GoCalled =>
        /\ GoFailed <=> InvalidAsked
        /\ GoFailed => NoLoop
        /\ ~GoFailed => loopPc # "notstarted"

\* the settings the setters reject: a queue capacity that is not positive, a
\* negative action timeout, a shutdown timeout that is not positive, no context
RejectedAsked ==
    \E a \in asked :
        \/ a[1] = "queueCapacity" /\ a[2] <= 0
        \/ a[1] = "actionTimeout" /\ a[2] < 0
        \/ a[1] = "shutdownTimeout" /\ a[2] <= 0
        \/ a[1] = "context" /\ a[2] = 0

\* C27 (amended): Go returns a non-nil error and starts no dispatch loop exactly
\* when some setter of the Config was given a value it rejects: a queue capacity
\* that is not positive, a negative action timeout, a shutdown timeout that is
\* not positive (zero included) or a nil context, whatever was set afterwards.
\* Otherwise Go succeeds and starts the loop.
C27_GoRejectsRecorded ==
    GoCalled =>
        /\ GoFailed <=> RejectedAsked
        /\ GoFailed => NoLoop
        /\ ~GoFailed => loopPc # "notstarted"

\* Go has refused a Config whose shutdown timeout was set to zero and then to a
\* positive value, and the context has been cancelled since
C27_Witness ==
    /\ GoFailed
    /\ asked = {<<"shutdownTimeout", 0>>, <<"shutdownTimeout", 1>>}
    /\ shutdownTimeout = 1
    /\ rootCancelled
    /\ NoLoop


\* an action of the options-based Actor has panicked
Panicked == \E q \in Ids : reqs[q].phase = "panicked"

\* C29: options-based Actor: when an action panics and the Recoverer returns
\* nil, the actor keeps running: as long as nobody stops it IsDone() is false,
\* Err() is nil and the backend neither closes Done nor finalizes; a call made
\* after the panic is not refused (it fails only on its own cancelled context),
\* and a DoSync made after it that returns nil had its action executed once, to
\* its end.
C29_RecoveredKeepsRunning ==
    (recoverer = "continue" /\ ~ctxDone) =>
        /\ ~OptIsDone
        /\ doneCloses = 0
        /\ Err = "nil"
        /\ loopPc \notin {"close", "finalize", "exited"}
        /\ \A r \in Ids :
            reqs[r].afterPanic =>
                /\ reqs[r].res \in {"pending", "nil", "CtxErr", "ErrCtxSending",
                                     "ErrCtxWaiting"}
                /\ (reqs[r].kind = "sync" /\ reqs[r].res = "nil") =>
                        /\ reqs[r].execs = 1
                        /\ reqs[r].phase \in {"done", "panicked"}

\* a DoSync panicked, the recoverer returned nil, and a DoSync made afterwards
\* has incremented the counter to 2 and returned nil
C29_Witness ==
    /\ recoverer = "continue"
    /\ ~ctxDone
    /\ state = 2
    /\ \E q, r \in Ids :
        /\ reqs[q].phase = "panicked" /\ reqs[q].kind = "sync" /\ reqs[q].res = "nil"
        /\ reqs[r].afterPanic /\ reqs[r].act = "inc" /\ reqs[r].kind = "sync"
        /\ reqs[r].phase = "done" /\ reqs[r].res = "nil"

\* C30: options-based Actor: when an action panics and the Recoverer, or the
\* default recoverer, returns an error e, the actor stops: once the handler has
\* run Done is closed (once) and IsDone() is true, the backend takes no request
\* any more, so no request is executed after the panic; a call begun when the
\* error was stored returns it without queueing anything; and Err() is e from
\* then on when the finalizer is the identity.
C30_PanicStops ==
    (recoverer \in {"default", "fail"} /\ Panicked) =>
        /\ loopPc \in {"recover", "close", "check", "finalize", "exited"}
        /\ loopReq = 0
        /\ Cardinality({q \in Ids : reqs[q].phase = "panicked"}) = 1
        /\ \A r \in Ids : reqs[r].afterPanic => reqs[r].execs = 0
        /\ loopPc \in {"check", "finalize", "exited"} =>
                OptIsDone /\ doneCloses = 1
        /\ loopPc # "recover" /\ finalizer \in {"unread", "identity"} =>
                Err = RecovererOut(recoverer)
        /\ \A r \in Ids :
            reqs[r].errWas # "nil" =>
                /\ reqs[r].res = reqs[r].errWas
                /\ reqs[r].phase = "new"
                /\ reqs[r].execs = 0

\* an action panicked with the default recoverer while another request was
\* queued; the backend has finalized with the identity finalizer, the queued
\* request was never executed and a call made after the stop got the error
C30_Witness ==
    /\ recoverer = "default"
    /\ Panicked
    /\ loopPc = "exited"
    /\ finalizer = "identity"
    /\ OptIsDone
    /\ Err = "PanicErr"
    /\ \E r \in Ids : reqs[r].phase = "queued" /\ reqs[r].execs = 0
    /\ \E r \in Ids : reqs[r].errWas = "PanicErr" /\ reqs[r].res = "PanicErr"


\* C31: options-based Actor: the channel Done() returned, at whatever moment
\* after Go it was called, is closed once the Actor has terminated (its backend
\* has finalized).
C31_DoneClosedOnExit ==
    (loopPc = "exited" /\ doneGot # "notcalled") =>
        (doneGot = "chan" /\ doneCloses > 0)


\* C39: options-based Actor: a DoSync whose action panicked does not leave its
\* caller blocked: the request's done channel is closed, so the caller, as long
\* as it has not returned, is in wait with its return on req.done ready.
C39_PanicNeverBlocks ==
    \A r \in Ids :
        (reqs[r].kind = "sync" /\ reqs[r].phase = "panicked") =>
            /\ reqs[r].doneClosed
            /\ reqs[r].res = "pending" =>
                    /\ pc[reqs[r].proc] = "wait"
                    /\ cur[reqs[r].proc] = r
                    /\ ENABLED OptWaitDone(reqs[r].proc)

\* a DoSync's action panicked, the recoverer stopped the actor, which has
\* finalized, and the DoSync has returned nil
C39_Witness ==
    /\ recoverer = "fail"
    /\ loopPc = "exited"
    /\ ~ctxDone
    /\ \E r \in Ids :
        reqs[r].kind = "sync" /\ reqs[r].phase = "panicked" /\ reqs[r].res = "nil"


\* C34: the finalizer is invoked with the cause of the stop: when the run loop
\* leaves through the case of the cancelled actor context (Stop() or root
\* cancellation) finalErr is ErrShutdown, when it leaves after an async action
\* that returned an error finalErr is that action's error; finalErr is kept
\* until the finalizer is invoked, and it is the finalizer's argument (what an
\* identity finalizer returns).
C34_FinalizerGetsCause ==
    [][ /\ (loopPc = "select" /\ loopPc' = "finalize")
            => (ctxDone /\ finalErr' = "ErrShutdown")
        /\ (loopPc \in {"exec", "wait", "deliver"} /\ loopPc' = "finalize")
            => ( (reqs'[loopReq].act = "fail" /\ reqs'[loopReq].phase = "finished")
                 => finalErr' = "ActionErr" )
        /\ (loopPc = "finalize" /\ loopPc' = "finalize") => finalErr' = finalErr
        /\ (loopPc = "finalize" /\ loopPc' = "status" /\ finalizer' = "identity")
            => (finalizerRet' = finalErr /\ finalizerCalls' = finalizerCalls + 1)
      ]_vars


\* C35: delivering a result never blocks the dispatch loop: req.done takes at
\* most one send, into an empty buffer, so whenever the run loop has a request
\* to take, an action that has returned or a result to deliver, its step is
\* possible, whether or not anybody receives; an action queued with DoAsyncAwait
\* is executed and the loop goes on even if the awaiter is never invoked.
C35_DeliveryNeverBlocks ==
    /\ \A r \in Ids :
        HasChan(r) =>
            /\ reqs[r].writes <= 1
            /\ reqs[r].writes = 0 => reqs[r].chan = <<>>
    /\ (loopPc = "select" /\ requests # <<>>) => ENABLED LoopRecv
    /\ loopPc = "exec" => ENABLED LoopExecEnd
    /\ (loopPc = "wait" /\ reqs[loopReq].phase = "finished") => ENABLED LoopActionDone
    /\ loopPc = "deliver" => ENABLED LoopDeliver

\* the action of a DoAsyncAwait has been executed and its result is in the
\* buffer, the awaiter was never invoked, and a request accepted later has been
\* executed as well
C35_Witness ==
    \E q, r \in Ids :
        /\ reqs[q].kind = "await" /\ reqs[q].awaits = 0
        /\ reqs[q].phase = "finished" /\ reqs[q].chan # <<>>
        /\ reqs[r].accNo > reqs[q].accNo
        /\ reqs[r].phase = "finished"
        /\ loopPc = "select"


\* the errors request r has reported: what the call returned and what each
\* invocation of its awaiter returned
Reported(r) ==
    {reqs[r].res} \cup {reqs[r].awaitRets[i] : i \in 1..Len(reqs[r].awaitRets)}

\* C36: when a submission has reported ErrShutdown or ErrCanceled, through Do,
\* DoAsync or an awaiter, its action has not been executed and never will be:
\* the request was never started, it is not in the queue, and it was either
\* never queued or skipped by the run loop.
C36_EngineErrorMeansNotExecuted ==
    \A r \in Ids :
        Reported(r) \cap {"ErrShutdown", "ErrCanceled"} # {} =>
            /\ reqs[r].execs = 0
            /\ reqs[r].phase \in {"new", "skipped"}
            /\ \A i \in 1..Len(requests) : requests[i] # r

\* a Do was queued, skipped by the run loop for its cancelled context and has
\* returned ErrCanceled, and the state is untouched
C36_Witness ==
    /\ state = 0
    /\ \E r \in Ids :
        reqs[r].kind = "do" /\ reqs[r].phase = "skipped" /\ reqs[r].res = "ErrCanceled"


C38_AsyncSkippedSilently ==
    [][ \A r \in Ids :
          reqs[r].kind = "async" =>
            /\ (reqs[r].phase = "queued" /\ reqs'[r].phase # "queued" /\ ReqCtxDone(r))
               => /\ reqs'[r] = [reqs[r] EXCEPT !.phase = "skipped"]
                  /\ loopPc' = "select" /\ loopReq' = 0
                  /\ UNCHANGED <<state, finalErr, finVars>>
            /\ reqs[r].phase = "skipped"
               => reqs'[r] = reqs[r]
      ]_vars

\* a DoAsync with a context of its own, cancelled after the request was queued,
\* has been skipped; the engine is running and Err() is nil
C38_Witness ==
    /\ ~ctxDone
    /\ LoopRunning /\ IsRunning /\ Err = "nil"
    /\ doneCloses = 0
    /\ \E r \in Ids :
        /\ reqs[r].kind = "async" /\ reqs[r].ctx = "c1"
        /\ ~reqs[r].ctxWasDone
        /\ reqs[r].phase = "skipped" /\ reqs[r].execs = 0 /\ reqs[r].res = "nil"

\* C33: the background loop started by Repeat terminates whenever the actor
\* stops, whatever the cause (Stop(), cancellation of the root context, or an
\* async action returning an error): once the actor has stopped, a repeater
\* that has not returned yet finds one of its two exit cases ready.
C33_RepeaterEndsWithActor ==
    (Rep \in DOMAIN pc /\ DoneClosed /\ pc[Rep] # "ended") => CtxIsDone("rep")

\* C32: after the stop function returned by Repeat has been called, no further
\* execution of the repeated action starts, even if a tick had already fired or
\* a repeat request is still queued: such a request is skipped when it is
\* dequeued; and once a Query submitted after the stop has read the state, the
\* repeated action changes it no more, so that a second Query reads the same.
C32_StopEndsRepetition ==
    [][ "rep" \in cancelled =>
          /\ \A r \in Ids :
                (reqs[r].proc = Rep /\ reqs[r].phase = "queued" /\ reqs'[r].phase # "queued")
                => (reqs'[r].phase = "skipped" /\ reqs'[r].execs = 0)
          /\ (\E q \in Ids : /\ reqs[q].act = "read" /\ reqs[q].afterRepStop
                              /\ reqs[q].phase \in {"running", "finished"})
             => state' = state
      ]_vars

\* a repeat request was still queued when the stop function was called and has
\* been skipped, and a Query submitted after the stop has returned the state
C32_Witness ==
    /\ "rep" \in cancelled
    /\ \E r, q \in Ids :
        /\ reqs[r].proc = Rep /\ reqs[r].phase = "skipped" /\ reqs[r].accNo > 0
        /\ ~reqs[r].ctxWasDone
        /\ reqs[q].act = "read" /\ reqs[q].afterRepStop
        /\ reqs[q].res = "nil" /\ reqs[q].obs = state

====
